---- MODULE Spec2Model ----
(***************************************************************************)
(* Model of the CNIC detector (Django Api/detector): the id_detector       *)
(* pipeline of views.py, the extraction helpers of services/ocr_service.py *)
(* and the lazy singletons of services/model_loader.py.                    *)
(*                                                                         *)
(* A Python str is a sequence of one-character strings; an Optional value  *)
(* is <<>> (None) or <<v>>; a dict is a sequence of <<key, value>> pairs   *)
(* in insertion order.                                                     *)
(***************************************************************************)
EXTENDS Integers, Sequences, FiniteSets, TLC

VARIABLES
    \* _convert_dates applied to a list (SpecDates)
    elements, out, dpc,
    \* the crop windows derived from one anchor box (SpecROI)
    anchor, upper_win, lower_win, rpc,
    \* ocr_front_lower applied to a recognizer result (SpecLower)
    result, lower_ret, lpc,
    \* model_loader: the module-level singletons and the calling threads (SpecLoader)
    yolo_model, ocr_reader, ctor_calls, tpc, tgot,
    \* one request through id_detector (SpecPipe)
    pc, faces, upper_data, upper_raw, cnic_front, lower_data, lower_raw,
    cnic_back, validated, merged, response, sink, sink_at_start,
    calls, events, write_failed

dateVars   == <<elements, out, dpc>>
roiVars    == <<anchor, upper_win, lower_win, rpc>>
lowerVars  == <<result, lower_ret, lpc>>
loaderVars == <<yolo_model, ocr_reader, ctor_calls, tpc, tgot>>
pipeVars   == <<pc, faces, upper_data, upper_raw, cnic_front, lower_data, lower_raw,
                cnic_back, validated, merged, response, sink, sink_at_start,
                calls, events, write_failed>>
vars == <<dateVars, roiVars, lowerVars, loaderVars, pipeVars>>

(***************************************************************************)
(* Values                                                                  *)
(***************************************************************************)
None == <<>>
Some(v) == <<v>>

Digits == <<"0","1","2","3","4","5","6","7","8","9">>
IsDigit(c) == \E i \in 1..10 : Digits[i] = c
DigitVal(c) == (CHOOSE i \in 1..10 : Digits[i] = c) - 1
Contains(s, c) == \E i \in 1..Len(s) : s[i] = c

RECURSIVE Remove(_, _)
\* str.replace(c, ""): every occurrence of the character c removed
Remove(s, c) ==
    IF s = <<>> THEN <<>>
    ELSE IF Head(s) = c THEN Remove(Tail(s), c)
    ELSE <<Head(s)>> \o Remove(Tail(s), c)

\* Python's s[a:b] for 0 <= a <= b: both ends clamped to len(s)
Slice(s, a, b) ==
    LET lo == IF a < Len(s) THEN a ELSE Len(s)
        hi == IF b < Len(s) THEN b ELSE Len(s)
    IN  SubSeq(s, lo + 1, hi)

Max0(n) == IF n > 0 THEN n ELSE 0

(***************************************************************************)
(* ocr_service.py: the denylists                                           *)
(***************************************************************************)
T_Slash == <<"/">>
T_Pakistan == <<"P","a","k","i","s","t","a","n">>
T_pakistan == <<"p","a","k","i","s","t","a","n">>
T_Name == <<"N","a","m","e">>
T_Father_Name == <<"F","a","t","h","e","r"," ","N","a","m","e">>
T_Gender == <<"G","e","n","d","e","r">>
T_Country_of_Stay == <<"C","o","u","n","t","r","y"," ","o","f"," ","S","t","a","y">>
T_Identity_Number == <<"I","d","e","n","t","i","t","y"," ","N","u","m","b","e","r">>
T_Date_of_Issue == <<"D","a","t","e"," ","o","f"," ","I","s","s","u","e">>
T_Date_of_Expiry == <<"D","a","t","e"," ","o","f"," ","E","x","p","i","r","y">>
T_Signature == <<"S","i","g","n","a","t","u","r","e">>
T_PAKISTAN == <<"P","A","K","I","S","T","A","N">>
T_ISLAMIC == <<"I","S","L","A","M","I","C"," ","R","E","p","U","B","L","I","C"," ","O","F"," ","P","A","K","I","S","T","A","N">>
T_United_Arab_Emirates == <<"U","n","i","t","e","d"," ","A","r","a","b"," ","E","m","i","r","a","t","e","s">>
T_Date == <<"D","a","t","e">>
T_of_Expiry == <<"o","f"," ","E","x","p","i","r","y">>
T_Date_of_Birth == <<"D","a","t","e"," ","o","f"," ","B","i","r","t","h">>

COMMON_FRONT ==
    { T_Slash, T_Pakistan, T_pakistan, T_Name, T_Father_Name, T_Gender,
      T_Country_of_Stay, T_Identity_Number, T_Date_of_Issue, T_Date_of_Expiry,
      T_Signature, T_PAKISTAN, T_ISLAMIC }

COMMON_LOWER ==
    { T_Date_of_Expiry, T_United_Arab_Emirates, T_Date, T_of_Expiry,
      T_Date_of_Birth, T_Slash, T_Pakistan }

(***************************************************************************)
(* ocr_service.py: _convert_dates                                          *)
(***************************************************************************)
NoMatch == <<>>

\* %d of strptime: (3[0-1]|[1-2]\d|0[1-9]|[1-9]| [1-9])
DayDirective(s) ==
    \/ /\ Len(s) = 2
       /\ \/ s[1] = "3" /\ s[2] \in {"0","1"}
          \/ s[1] \in {"1","2"} /\ IsDigit(s[2])
          \/ s[1] \in {"0"," "} /\ IsDigit(s[2]) /\ s[2] # "0"
    \/ Len(s) = 1 /\ IsDigit(s[1]) /\ s[1] # "0"

\* %m of strptime: (1[0-2]|0[1-9]|[1-9])
MonthDirective(s) ==
    \/ /\ Len(s) = 2
       /\ \/ s[1] = "1" /\ s[2] \in {"0","1","2"}
          \/ s[1] = "0" /\ IsDigit(s[2]) /\ s[2] # "0"
    \/ Len(s) = 1 /\ IsDigit(s[1]) /\ s[1] # "0"

\* %Y of strptime: (\d\d\d\d)
YearDirective(s) == Len(s) = 4 /\ \A i \in 1..4 : IsDigit(s[i])

\* int() of a run of digits, a leading space allowed (int(" 1") = 1)
RECURSIVE IntOf(_)
IntOf(s) ==
    IF s = <<>> THEN 0
    ELSE IF s[Len(s)] = " " THEN 0
    ELSE 10 * IntOf(SubSeq(s, 1, Len(s) - 1)) + DigitVal(s[Len(s)])

IsLeap(y) == (y % 4 = 0 /\ y % 100 # 0) \/ y % 400 = 0

DaysInMonth(y, m) ==
    IF m = 2 THEN (IF IsLeap(y) THEN 29 ELSE 28)
    ELSE IF m \in {4, 6, 9, 11} THEN 30 ELSE 31

\* datetime.date(y, m, d) accepts: MINYEAR <= y, 1 <= d <= days of the month
DateExists(y, m, d) == y >= 1 /\ m \in 1..12 /\ d >= 1 /\ d <= DaysInMonth(y, m)

\* datetime.strptime(el, "%d.%m.%Y"): the whole string must match the format's
\* regular expression and name a date that exists; otherwise ValueError (NoMatch)
Strptime(el) ==
    LET n == Len(el)
        Splits == { p \in (1..2) \X (1..2) :
                      /\ n = p[1] + p[2] + 6
                      /\ el[p[1] + 1] = "."
                      /\ el[p[1] + p[2] + 2] = "."
                      /\ DayDirective(SubSeq(el, 1, p[1]))
                      /\ MonthDirective(SubSeq(el, p[1] + 2, p[1] + p[2] + 1))
                      /\ YearDirective(SubSeq(el, p[1] + p[2] + 3, n)) }
    IN  IF Splits = {} THEN NoMatch
        ELSE LET p == CHOOSE q \in Splits : TRUE
                 d == IntOf(SubSeq(el, 1, p[1]))
                 m == IntOf(SubSeq(el, p[1] + 2, p[1] + p[2] + 1))
                 y == IntOf(SubSeq(el, p[1] + p[2] + 3, n))
             IN  IF DateExists(y, m, d) THEN <<[day |-> d, month |-> m, year |-> y]>>
                 ELSE NoMatch

TwoDigits(n) == <<Digits[(n \div 10) + 1], Digits[(n % 10) + 1]>>

\* dt.strftime("%d%m%y")
Strftime(dt) == TwoDigits(dt.day) \o TwoDigits(dt.month) \o TwoDigits(dt.year % 100)

\* a faulty variant: the shape alone decides, the date is never validated
ConvertDate_ShapeOnly(el) ==
    IF /\ Len(el) = 10
       /\ el[3] = "." /\ el[6] = "."
       /\ \A i \in {1, 2, 4, 5, 7, 8, 9, 10} : IsDigit(el[i])
    THEN <<el[1], el[2], el[4], el[5], el[9], el[10]>>
    ELSE el

\* one iteration of the loop of _convert_dates (every element is a str here)
ConvertDate(el) ==
    LET dt == Strptime(el)
    IN  IF dt = NoMatch THEN el ELSE Strftime(dt[1])

convert_dates(els) == [i \in 1..Len(els) |-> ConvertDate(els[i])]


(***************************************************************************)
(* ocr_service.py: the crop windows of ocr_front_upper and ocr_front_lower *)
(***************************************************************************)
\* minSize=(40, 40) of detectMultiScale: no anchor box is smaller
MinFace == 40

\* a faulty variant: the lower window starts 10 rows higher
LowerWindow_Top100(box) ==
    [left |-> Max0(box[1] - 410), top |-> box[2] + 100,
     right |-> Max0(box[1] - 15), bottom |-> box[2] + box[4] + 135]

\* ocr_front_upper: left_x, left_y, right_x, bottom_y of one (x, y, w, h)
UpperWindow(box) ==
    [left |-> Max0(box[1] - 410), top |-> Max0(box[2] - 72),
     right |-> Max0(box[1] - 15), bottom |-> box[2] + box[4] + 40]

\* ocr_front_lower: left_x, top_y, right_x, bottom_y of one (x, y, w, h)
LowerWindow(box) ==
    [left |-> Max0(box[1] - 410), top |-> box[2] + 110,
     right |-> Max0(box[1] - 15), bottom |-> box[2] + box[4] + 135]

\* image[top:bottom, left:right].size of an image of `rows` x `cols` pixels: numpy
\* clamps every end of a slice to the axis (all ends are >= 0 here)
RoiSize(win, rows, cols) ==
    LET Clamp(v, n) == IF v < n THEN v ELSE n
        hgt == Max0(Clamp(win.bottom, rows) - Clamp(win.top, rows))
        wid == Max0(Clamp(win.right, cols) - Clamp(win.left, cols))
    IN  hgt * wid

(***************************************************************************)
(* ocr_service.py: ocr_front_lower, from the recognizer's result on        *)
(***************************************************************************)
StripHyphens(t) == Remove(t, "-")
\* [(det[0], det[1].replace("-", "")) for det in ...] and its texts
StripAll(ts) == [i \in 1..Len(ts) |-> StripHyphens(ts[i])]
NotCommonLower(t) == t \notin COMMON_LOWER
NotCommonFront(t) == t \notin COMMON_FRONT

\* a faulty variant: the guard is len(texts) > 4
LowerFields_MoreThan4(texts) ==
    IF Len(texts) > 4
    THEN << <<"Id Card Number", texts[1]>>, <<"Date Of Birth", texts[2]>>,
            <<"Date Of Issue", texts[3]>>, <<"Date Of Expiry", texts[4]>> >>
    ELSE <<>>

\* data of ocr_front_lower: the positional mapping of the surviving texts
LowerFields(texts) ==
    IF Len(texts) >= 4
    THEN << <<"Id Card Number", texts[1]>>, <<"Date Of Birth", texts[2]>>,
            <<"Date Of Issue", texts[3]>>, <<"Date Of Expiry", texts[4]>> >>
    ELSE <<>>

\* texts of ocr_front_lower: filtered, hyphens stripped, dates converted
LowerTexts(res) == convert_dates(StripAll(SelectSeq(res, NotCommonLower)))

\* the loop over `result`: the first raw text with a "-" and 15 characters
FindCnic(res) ==
    LET Hits == { i \in 1..Len(res) : Contains(res[i], "-") /\ Len(res[i]) = 15 }
    IN  IF Hits = {} THEN None
        ELSE Some(StripHyphens(res[CHOOSE i \in Hits : \A j \in Hits : i <= j]))

\* the try block of ocr_front_lower after reader.readtext returned res
LowerExtract(res) ==
    [cnic |-> FindCnic(res), data |-> LowerFields(LowerTexts(res)), texts |-> LowerTexts(res)]

\* what ocr_front_lower returns on its early returns and in its except branch
LowerEmpty == [cnic |-> None, data |-> <<>>, texts |-> <<>>]

(***************************************************************************)
(* Inputs                                                                  *)
(***************************************************************************)
BoundedSeqs(S, n) == UNION { [1..k -> S] : k \in 0..n }

MaxElems == 2
MaxFaceH == 75
MaxLowerTokens == 5

TokCnic == <<"1","2","3","4","5","-","1","2","3","4","5","6","7","-","1">>
TokCnicB == <<"5","4","3","2","1","-","7","6","5","4","3","2","1","-","9">>
TokOdd == <<"A","B","C","D","E","F","G","-","H","I","J","K","L","M","N">>
TokHyDate == <<"0","-","1","-",".","0","-","2","-",".","2","0","3","0","-">>
TokPlain == <<"1","2","3","4","5","1","2","3","4","5","6","7","1">>
TokShort == <<"1","2","3","4","-","1","2","3","-","1">>
TokDate == <<"0","1",".","0","2",".","2","0","3","0">>
TokHello == <<"h","e","l","l","o">>

ShapedDates ==
    { d \o <<".">> \o m \o <<".">> \o y :
        d \in { <<"2","9">>, <<"3","1">>, <<"0","0">> },
        m \in { <<"0","2">>, <<"0","4">>, <<"1","3">> },
        y \in { <<"2","0","2","0">>, <<"1","9","0","0">>, <<"2","0","0","0">> } }

DateTokens ==
    ShapedDates \cup
    { TokDate, TokHello,
      <<"1",".","2",".","2","0","3","0">>,
      <<" ","1",".","2",".","2","0","3","0">>,
      <<"0","1",".","0","2",".","0","0","0","0">>,
      <<"0","1",".","0","2",".","2","0","3","0","0">> }

AnchorBoxes ==
    { <<x, y, h, h>> : x \in {0, 15, 16, 410, 500}, y \in {0, 72, 100}, h \in MinFace..MaxFaceH }

LowerTokens == { TokCnic, TokOdd, TokPlain, TokDate, TokShort, TokHyDate, T_Date_of_Birth }

(***************************************************************************)
(* The states in which a part of the program is not running                *)
(***************************************************************************)
DatesIdle == elements = <<>> /\ out = <<>> /\ dpc = "idle"
RoiIdle == anchor = <<>> /\ upper_win = <<>> /\ lower_win = <<>> /\ rpc = "idle"
LowerIdle == result = <<>> /\ lower_ret = <<>> /\ lpc = "idle"
LoaderIdle ==
    yolo_model = None /\ ocr_reader = None /\ ctor_calls = <<>> /\ tpc = <<>> /\ tgot = <<>>
PipeIdle ==
    /\ pc = "idle" /\ faces = <<>> /\ upper_data = <<>> /\ upper_raw = <<>>
    /\ cnic_front = None /\ lower_data = <<>> /\ lower_raw = <<>> /\ cnic_back = None
    /\ validated = "no" /\ merged = <<>> /\ response = <<>> /\ sink = <<>>
    /\ sink_at_start = <<>> /\ calls = <<>> /\ events = {}
    /\ write_failed = FALSE

(***************************************************************************)
(* SpecDates: _convert_dates on every list of at most MaxElems tokens      *)
(***************************************************************************)
InitDates ==
    /\ elements \in BoundedSeqs(DateTokens, MaxElems)
    /\ out = <<>> /\ dpc = "call"
    /\ RoiIdle /\ LowerIdle /\ LoaderIdle /\ PipeIdle

ConvertDatesCall ==
    /\ dpc = "call"
    /\ out' = convert_dates(elements)
    /\ dpc' = "ret"
    /\ UNCHANGED <<elements, roiVars, lowerVars, loaderVars, pipeVars>>

NextDates == ConvertDatesCall
SpecDates == InitDates /\ [][NextDates]_vars

(***************************************************************************)
(* SpecROI: both windows derived from one anchor box                       *)
(***************************************************************************)
InitROI ==
    /\ anchor \in AnchorBoxes
    /\ upper_win = <<>> /\ lower_win = <<>> /\ rpc = "call"
    /\ DatesIdle /\ LowerIdle /\ LoaderIdle /\ PipeIdle

DeriveWindows ==
    /\ rpc = "call"
    /\ upper_win' = UpperWindow(anchor)
    /\ lower_win' = LowerWindow(anchor)
    /\ rpc' = "ret"
    /\ UNCHANGED <<anchor, dateVars, lowerVars, loaderVars, pipeVars>>

NextROI == DeriveWindows
SpecROI == InitROI /\ [][NextROI]_vars

(***************************************************************************)
(* SpecLower: ocr_front_lower on every recognizer result of at most        *)
(* MaxLowerTokens tokens                                                   *)
(***************************************************************************)
InitLower ==
    /\ result \in BoundedSeqs(LowerTokens, MaxLowerTokens)
    /\ lower_ret = <<>> /\ lpc = "call"
    /\ DatesIdle /\ RoiIdle /\ LoaderIdle /\ PipeIdle

OcrFrontLowerCall ==
    /\ lpc = "call"
    /\ lower_ret' = LowerExtract(result)
    /\ lpc' = "ret"
    /\ UNCHANGED <<result, dateVars, roiVars, loaderVars, pipeVars>>

NextLower == OcrFrontLowerCall
SpecLower == InitLower /\ [][NextLower]_vars


(***************************************************************************)
(* SpecLoader: model_loader.py, get_yolo_model and get_ocr_reader called   *)
(* from NumThreads request threads. A getter is four steps a thread switch *)
(* can separate: the test of the global, the constructor, the store to the *)
(* global, and the load of the global for the return. ctor_calls counts    *)
(* the constructor calls that built an instance, and an instance is named  *)
(* by the number of the call that built it.                                *)
(***************************************************************************)
NumThreads == 2
MaxCalls == 2
Threads == 1..NumThreads
Getters == {"yolo", "ocr"}

Global(fn) == IF fn = "yolo" THEN yolo_model ELSE ocr_reader

InitLoader ==
    /\ yolo_model = None /\ ocr_reader = None
    /\ ctor_calls = [fn \in Getters |-> 0]
    /\ tpc = [t \in Threads |-> "idle"]
    /\ tgot = [t \in Threads |-> [fn |-> "yolo", local |-> 0, ret |-> None, ncalls |-> 0]]
    /\ DatesIdle /\ RoiIdle /\ LowerIdle /\ PipeIdle

\* a thread enters get_yolo_model or get_ocr_reader
Call(t) ==
    /\ tpc[t] = "idle"
    /\ tgot[t].ncalls < MaxCalls
    /\ \E fn \in Getters :
          tgot' = [tgot EXCEPT ![t] = [fn |-> fn, local |-> 0, ret |-> None,
                                       ncalls |-> @.ncalls + 1]]
    /\ tpc' = [tpc EXCEPT ![t] = "test"]
    /\ UNCHANGED <<yolo_model, ocr_reader, ctor_calls, dateVars, roiVars, lowerVars, pipeVars>>

\* if _yolo_model is None: / if _ocr_reader is None:
TestGlobal(t) ==
    /\ tpc[t] = "test"
    /\ tpc' = [tpc EXCEPT ![t] = IF Global(tgot[t].fn) = None THEN "construct" ELSE "return"]
    /\ UNCHANGED <<yolo_model, ocr_reader, ctor_calls, tgot, dateVars, roiVars, lowerVars, pipeVars>>

\* YOLOv8(MODEL_PATH, ...) / easyocr.Reader(langs, gpu=gpu): returns a new instance,
\* or raises out of the getter and leaves the global as it is
Construct(t) ==
    /\ tpc[t] = "construct"
    /\ \E raises \in BOOLEAN :
          IF raises
          THEN /\ tpc' = [tpc EXCEPT ![t] = "idle"]
               /\ UNCHANGED <<tgot, ctor_calls>>
          ELSE /\ tpc' = [tpc EXCEPT ![t] = "store"]
               /\ ctor_calls' = [ctor_calls EXCEPT ![tgot[t].fn] = @ + 1]
               /\ tgot' = [tgot EXCEPT ![t].local = ctor_calls[tgot[t].fn] + 1]
    /\ UNCHANGED <<yolo_model, ocr_reader, dateVars, roiVars, lowerVars, pipeVars>>

\* _yolo_model = ... / _ocr_reader = ...
StoreGlobal(t) ==
    /\ tpc[t] = "store"
    /\ IF tgot[t].fn = "yolo"
       THEN yolo_model' = Some(tgot[t].local) /\ ocr_reader' = ocr_reader
       ELSE ocr_reader' = Some(tgot[t].local) /\ yolo_model' = yolo_model
    /\ tpc' = [tpc EXCEPT ![t] = "return"]
    /\ UNCHANGED <<ctor_calls, tgot, dateVars, roiVars, lowerVars, pipeVars>>

\* return _yolo_model / return _ocr_reader
ReturnGlobal(t) ==
    /\ tpc[t] = "return"
    /\ tgot' = [tgot EXCEPT ![t].ret = Global(tgot[t].fn)]
    /\ tpc' = [tpc EXCEPT ![t] = "idle"]
    /\ UNCHANGED <<yolo_model, ocr_reader, ctor_calls, dateVars, roiVars, lowerVars, pipeVars>>

NextLoader ==
    \E t \in Threads :
        Call(t) \/ TestGlobal(t) \/ Construct(t) \/ StoreGlobal(t) \/ ReturnGlobal(t)
SpecLoader == InitLoader /\ [][NextLoader]_vars

(***************************************************************************)
(* model_loader.py as the pipeline calls it: one request at a time         *)
(***************************************************************************)
\* get_yolo_model(): the global when it is set; otherwise the constructor runs and
\* either raises (the global stays None) or its instance is stored and returned
get_yolo_model(g, ctor_raises) ==
    IF g # None THEN [raised |-> FALSE, global |-> g]
    ELSE IF ctor_raises THEN [raised |-> TRUE, global |-> None]
    ELSE [raised |-> FALSE, global |-> Some(1)]

\* get_ocr_reader(): as get_yolo_model
get_ocr_reader(g, ctor_raises) ==
    IF g # None THEN [raised |-> FALSE, global |-> g]
    ELSE IF ctor_raises THEN [raised |-> TRUE, global |-> None]
    ELSE [raised |-> FALSE, global |-> Some(1)]

(***************************************************************************)
(* ocr_service.py: the stages of the pipeline. `fail` names the capability *)
(* call that raises in this stage ("none": no call raises). Each stage     *)
(* reports whether it raised to its caller, the capability calls it made   *)
(* and, in `event`, why it made no extraction.                             *)
(***************************************************************************)
\* the decoded front image: 480 rows of 640 pixels
Image == [rows |-> 480, cols |-> 640]

\* detect_card_regions: no try block, every exception leaves the function
detect_card_regions(yolo, fail) ==
    LET g == get_yolo_model(yolo, fail = "ctor")
        Steps == <<"infer_front", "annotate_front", "infer_back", "annotate_back">>
        n == IF \E i \in 1..4 : Steps[i] = fail
             THEN CHOOSE i \in 1..4 : Steps[i] = fail ELSE 4
    IN  IF g.raised
        THEN [raised |-> TRUE, yolo |-> None, det_front |-> 0, annotate |-> 0,
              det_back |-> 0, event |-> "detect:ctor_raised"]
        ELSE [raised |-> \E i \in 1..4 : Steps[i] = fail,
              yolo |-> g.global,
              det_front |-> 1,
              annotate |-> (IF n >= 2 THEN 1 ELSE 0) + (IF n >= 4 THEN 1 ELSE 0),
              det_back |-> IF n >= 3 THEN 1 ELSE 0,
              event |-> IF \E i \in 1..4 : Steps[i] = fail
                        THEN "detect:capability_raised" ELSE "ok"]

\* data and texts of ocr_front_upper from the recognizer's result
UpperExtract(res) ==
    LET texts == StripAll(SelectSeq(res, NotCommonFront))
    IN  [texts |-> texts,
         data |-> IF Len(texts) >= 2
                  THEN << <<"Name", texts[1]>>, <<"Guardian Name", texts[2]>> >>
                  ELSE IF Len(texts) = 1 THEN << <<"Name", texts[1]>> >>
                  ELSE <<>>]

\* ocr_front_upper: both getters are called before the try block
ocr_front_upper(yolo, ocr, fail, boxes_empty, fcs, res) ==
    LET gy == get_yolo_model(yolo, fail = "ctor_yolo")
        go == get_ocr_reader(ocr, fail = "ctor_ocr")
        Ret(raised, o, x, df, ou, ev) ==
            [raised |-> raised, yolo |-> gy.global, ocr |-> o, data |-> x.data,
             texts |-> x.texts, det_front |-> df, ocr_upper |-> ou, event |-> ev]
        Empty == [data |-> <<>>, texts |-> <<>>]
    IN  IF gy.raised THEN Ret(TRUE, ocr, Empty, 0, 0, "upper:ctor_raised")
        ELSE IF go.raised THEN Ret(TRUE, None, Empty, 0, 0, "upper:ctor_raised")
        ELSE IF fail = "infer" THEN Ret(FALSE, go.global, Empty, 1, 0, "upper:infer_raised")
        ELSE IF boxes_empty THEN Ret(FALSE, go.global, Empty, 1, 0, "upper:no_boxes")
        ELSE IF Len(fcs) = 0 THEN Ret(FALSE, go.global, Empty, 1, 0, "upper:no_faces")
        ELSE IF RoiSize(UpperWindow(fcs[Len(fcs)]), Image.rows, Image.cols) = 0
             THEN Ret(FALSE, go.global, Empty, 1, 0, "upper:empty_roi")
        ELSE IF fail = "readtext"
             THEN Ret(FALSE, go.global, Empty, 1, 1, "upper:readtext_raised")
        ELSE Ret(FALSE, go.global, UpperExtract(res), 1, 1, "ok")

\* ocr_front_lower: the getter is called before the try block
ocr_front_lower(ocr, fail, fcs, res) ==
    LET go == get_ocr_reader(ocr, fail = "ctor_ocr")
        Ret(raised, x, ol, ev) ==
            [raised |-> raised, ocr |-> go.global, cnic |-> x.cnic, data |-> x.data,
             texts |-> x.texts, ocr_lower |-> ol, event |-> ev]
    IN  IF go.raised THEN Ret(TRUE, LowerEmpty, 0, "lower:ctor_raised")
        ELSE IF Len(fcs) = 0 THEN Ret(FALSE, LowerEmpty, 0, "lower:no_faces")
        ELSE IF RoiSize(LowerWindow(fcs[1]), Image.rows, Image.cols) = 0
             THEN Ret(FALSE, LowerEmpty, 0, "lower:empty_roi")
        ELSE IF fail = "readtext" THEN Ret(FALSE, LowerEmpty, 1, "lower:readtext_raised")
        ELSE Ret(FALSE, LowerExtract(res), 1, "ok")

\* a faulty variant: ocr_back_qr without its own detection run
ocr_back_qr_NoDetection(yolo, fail, qr_codes) ==
    LET gy == get_yolo_model(yolo, fail = "ctor_yolo")
        Ret(raised, c, db, bc, ev) ==
            [raised |-> raised, yolo |-> gy.global, cnic |-> c, det_back |-> db,
             barcode |-> bc, event |-> ev]
    IN  IF gy.raised THEN Ret(TRUE, None, 0, 0, "back:ctor_raised")
        ELSE IF fail = "infer" THEN Ret(FALSE, None, 0, 0, "back:infer_raised")
        ELSE IF fail = "decode" THEN Ret(FALSE, None, 0, 1, "back:decode_raised")
        ELSE IF qr_codes = <<>> THEN Ret(FALSE, None, 0, 1, "back:no_code")
        ELSE IF fail = "utf8" THEN Ret(FALSE, None, 0, 1, "back:utf8_raised")
        ELSE Ret(FALSE, Some(Slice(qr_codes[1], 12, 25)), 0, 1, "ok")

\* ocr_back_qr: the getter is called before the try block
ocr_back_qr(yolo, fail, qr_codes) ==
    LET gy == get_yolo_model(yolo, fail = "ctor_yolo")
        Ret(raised, c, db, bc, ev) ==
            [raised |-> raised, yolo |-> gy.global, cnic |-> c, det_back |-> db,
             barcode |-> bc, event |-> ev]
    IN  IF gy.raised THEN Ret(TRUE, None, 0, 0, "back:ctor_raised")
        ELSE IF fail = "infer" THEN Ret(FALSE, None, 1, 0, "back:infer_raised")
        ELSE IF fail = "decode" THEN Ret(FALSE, None, 1, 1, "back:decode_raised")
        ELSE IF qr_codes = <<>> THEN Ret(FALSE, None, 1, 1, "back:no_code")
        ELSE IF fail = "utf8" THEN Ret(FALSE, None, 1, 1, "back:utf8_raised")
        ELSE Ret(FALSE, Some(Slice(qr_codes[1], 12, 25)), 1, 1, "ok")

\* a faulty variant: None is not tested for
validate_cnic_EqualOnly(front_cnic, back_cnic) == front_cnic = back_cnic

validate_cnic(front_cnic, back_cnic) ==
    IF front_cnic = None \/ back_cnic = None THEN FALSE
    ELSE front_cnic = back_cnic

Keys(d) == { d[i][1] : i \in 1..Len(d) }
Lookup(d, k) == d[CHOOSE i \in 1..Len(d) : d[i][1] = k][2]

\* {**a, **b}: the keys of a in their order, then the new keys of b; b's value wins
DictMerge(a, b) ==
    [i \in 1..Len(a) |->
        <<a[i][1], IF a[i][1] \in Keys(b) THEN Lookup(b, a[i][1]) ELSE a[i][2]>>]
    \o SelectSeq(b, LAMBDA kv : kv[1] \notin Keys(a))

\* merged[key] = merged[key].replace(".", "") for every key
Sanitise(m) == [i \in 1..Len(m) |-> <<m[i][1], Remove(m[i][2], ".")>>]

\* the rows csv.writer is given: the header, then one row per item
CsvRows(m) == << <<"key", <<"v","a","l","u","e">> >> >> \o m

\* the file after merge_card_data: the rows when nothing fails; untouched when
\* open() raises; truncated to the k rows already written when a writerow raises
SinkAfter(old, m, wfail, k) ==
    IF wfail = "none" THEN CsvRows(m)
    ELSE IF wfail = "open" THEN old
    ELSE SubSeq(CsvRows(m), 1, k)

\* a faulty variant: the write is not guarded by try/except
merge_card_data_NoExcept(upper, lower, old, wfail, k) ==
    [raised |-> wfail # "none",
     merged |-> Sanitise(DictMerge(upper, lower)),
     sink |-> SinkAfter(old, Sanitise(DictMerge(upper, lower)), wfail, k)]

\* a faulty variant: the values are not sanitised
merge_card_data_NoSanitise(upper, lower, old, wfail, k) ==
    [raised |-> FALSE,
     merged |-> DictMerge(upper, lower),
     sink |-> SinkAfter(old, DictMerge(upper, lower), wfail, k)]

\* merge_card_data with the default csv_path: merge, sanitise, write; an exception
\* of the write is logged and swallowed
merge_card_data(upper, lower, old, wfail, k) ==
    LET m == Sanitise(DictMerge(upper, lower))
    IN  [raised |-> FALSE, merged |-> m, sink |-> SinkAfter(old, m, wfail, k)]

(***************************************************************************)
(* views.py: _envelope and the responses of id_detector                    *)
(***************************************************************************)
envelope(success, message, data, errors) ==
    [success |-> success, message |-> message, data |-> data, errors |-> errors]

Response(env, status) == [body |-> env, status |-> status]

\* the except branch of id_detector
InternalError ==
    Response(envelope(FALSE, "Internal server error", None, <<"exception">>), 500)

NoCalls ==
    [det_front |-> 0, det_back |-> 0, annotate |-> 0, ocr_upper |-> 0, ocr_lower |-> 0,
     barcode |-> 0, validate |-> 0, merge |-> 0]

(***************************************************************************)
(* Inputs of the pipeline                                                  *)
(***************************************************************************)
FaceA == <<500, 100, 60, 60>>   \* both windows inside the image
FaceB == <<10, 100, 60, 60>>    \* x < 15: both windows are empty
FaceC == <<500, 400, 60, 60>>   \* the lower window starts below the image
FaceLists == { <<>>, <<FaceA>>, <<FaceB>>, <<FaceC>>, <<FaceA, FaceB>>, <<FaceB, FaceA>> }

TokAli == <<"A","l","i">>
TokAhmed == <<"A","h","-","m","e","d">>
TokMAli == <<"M","."," ","A","l","i">>
UpperResults == { <<>>, <<T_Name, TokAli, TokAhmed>>, <<TokMAli>> }

TokDotted == <<"1","2","3","4",".","-","1","2","3","4","5","6","7","-","1">>
LowerResults ==
    { <<>>,
      <<TokCnic, TokDate, TokDate, TokDate>>,
      <<T_Date_of_Birth, TokCnic>>,
      <<TokPlain, TokDate, TokDate, TokDate>>,
      <<TokHello, TokCnic, TokDate, TokDate, TokDate>>,
      <<TokCnicB, TokDate, TokDate, TokDate>>,
      <<TokDotted, TokDate, TokDate, TokDate>> }

Payload == <<"P","K","0","0","0","0","0","0","0","0","0","0","1","2","3","4","5","1","2","3","4","5","6","7","1","X","Y","Z">>
PayloadDotted == <<"P","K","0","0","0","0","0","0","0","0","0","0","1","2","3","4",".","1","2","3","4","5","6","7","1","X","Y","Z">>
PayloadShort == <<"P","K","1","2","3","4","5">>
QrResults == { <<>>, <<Payload>>, <<PayloadDotted>>, <<PayloadShort>>, <<PayloadDotted, Payload>> }

(***************************************************************************)
(* SpecPipe: requests through id_detector, one after the other, in one     *)
(* process: the singletons and the file survive from request to request    *)
(***************************************************************************)
RequestStart ==
    /\ pc = "start" /\ faces = <<>> /\ upper_data = <<>> /\ upper_raw = <<>>
    /\ cnic_front = None /\ lower_data = <<>> /\ lower_raw = <<>> /\ cnic_back = None
    /\ validated = "no" /\ merged = <<>> /\ response = <<>>
    /\ calls = NoCalls /\ events = {} /\ write_failed = FALSE

InitPipe ==
    /\ RequestStart
    /\ sink = <<>> /\ sink_at_start = <<>>
    /\ yolo_model = None /\ ocr_reader = None
    /\ ctor_calls = <<>> /\ tpc = <<>> /\ tgot = <<>>
    /\ DatesIdle /\ RoiIdle /\ LowerIdle

otherVars == <<dateVars, roiVars, lowerVars, ctor_calls, tpc, tgot>>

Finish(resp) == pc' = "done" /\ response' = resp

\* id_detector, "validate uploads": both files present and decodable, or a 400
Uploads ==
    /\ pc = "start"
    /\ \E up \in {"ok", "missing_files", "invalid_image"} :
          IF up = "ok" THEN pc' = "anchor" /\ response' = response
          ELSE IF up = "missing_files"
          THEN Finish(Response(envelope(FALSE,
                    "Missing required files: 'front_image' and 'back_image'",
                    None, <<"missing_files">>), 400))
          ELSE Finish(Response(envelope(FALSE,
                    "Unable to decode one or both uploaded images",
                    None, <<"invalid_image">>), 400))
    /\ UNCHANGED <<faces, upper_data, upper_raw, cnic_front, lower_data, lower_raw,
                   cnic_back, validated, merged, sink, sink_at_start, calls, events,
                   write_failed, yolo_model, ocr_reader, otherVars>>

\* id_detector, "face detection": the anchor capability returns its boxes or raises
FaceDetection ==
    /\ pc = "anchor"
    /\ \E fs \in FaceLists, raises \in BOOLEAN :
          IF raises THEN Finish(InternalError) /\ faces' = faces
          ELSE IF Len(fs) = 0
          THEN /\ Finish(Response(envelope(FALSE, "No face detected on the front image",
                                           None, <<"no_face_detected">>), 422))
               /\ faces' = fs
          ELSE pc' = "detect" /\ response' = response /\ faces' = fs
    /\ UNCHANGED <<upper_data, upper_raw, cnic_front, lower_data, lower_raw,
                   cnic_back, validated, merged, sink, sink_at_start, calls, events,
                   write_failed, yolo_model, ocr_reader, otherVars>>

Note(ev) == events' = IF ev = "ok" THEN events ELSE events \cup {ev}

\* back_roi, front_roi = detect_card_regions(front_gray, back_image)
CallDetectCardRegions ==
    /\ pc = "detect"
    /\ \E fail \in {"none", "ctor", "infer_front", "annotate_front", "infer_back",
                    "annotate_back"} :
          /\ fail = "ctor" => yolo_model = None
          /\ LET r == detect_card_regions(yolo_model, fail)
             IN  /\ yolo_model' = r.yolo
                 /\ calls' = [calls EXCEPT !.det_front = @ + r.det_front,
                                           !.det_back = @ + r.det_back,
                                           !.annotate = @ + r.annotate]
                 /\ Note(r.event)
                 /\ IF r.raised THEN Finish(InternalError)
                    ELSE pc' = "upper" /\ response' = response
    /\ UNCHANGED <<faces, upper_data, upper_raw, cnic_front, lower_data, lower_raw,
                   cnic_back, validated, merged, sink, sink_at_start,
                   write_failed, ocr_reader, otherVars>>

\* upper_data, upper_raw = ocr_front_upper(front_image, faces)
CallOcrFrontUpper ==
    /\ pc = "upper"
    /\ \E fail \in {"none", "ctor_yolo", "ctor_ocr", "infer", "readtext"},
          boxes_empty \in BOOLEAN, res \in UpperResults :
          /\ fail = "ctor_yolo" => yolo_model = None
          /\ fail = "ctor_ocr" => ocr_reader = None
          /\ LET r == ocr_front_upper(yolo_model, ocr_reader, fail, boxes_empty, faces, res)
             IN  /\ yolo_model' = r.yolo
                 /\ ocr_reader' = r.ocr
                 /\ calls' = [calls EXCEPT !.det_front = @ + r.det_front,
                                           !.ocr_upper = @ + r.ocr_upper]
                 /\ Note(r.event)
                 /\ IF r.raised
                    THEN Finish(InternalError) /\ UNCHANGED <<upper_data, upper_raw>>
                    ELSE /\ pc' = "lower" /\ response' = response
                         /\ upper_data' = r.data /\ upper_raw' = r.texts
    /\ UNCHANGED <<faces, cnic_front, lower_data, lower_raw,
                   cnic_back, validated, merged, sink, sink_at_start,
                   write_failed, otherVars>>

\* cnic_front, lower_data, lower_raw = ocr_front_lower(front_gray, faces)
CallOcrFrontLower ==
    /\ pc = "lower"
    /\ \E fail \in {"none", "ctor_ocr", "readtext"}, res \in LowerResults :
          /\ fail = "ctor_ocr" => ocr_reader = None
          /\ LET r == ocr_front_lower(ocr_reader, fail, faces, res)
             IN  /\ ocr_reader' = r.ocr
                 /\ calls' = [calls EXCEPT !.ocr_lower = @ + r.ocr_lower]
                 /\ Note(r.event)
                 /\ IF r.raised
                    THEN /\ Finish(InternalError)
                         /\ UNCHANGED <<cnic_front, lower_data, lower_raw>>
                    ELSE /\ pc' = "back" /\ response' = response
                         /\ cnic_front' = r.cnic /\ lower_data' = r.data
                         /\ lower_raw' = r.texts
    /\ UNCHANGED <<faces, upper_data, upper_raw,
                   cnic_back, validated, merged, sink, sink_at_start,
                   write_failed, yolo_model, otherVars>>

\* cnic_back = ocr_back_qr(back_roi)
CallOcrBackQr ==
    /\ pc = "back"
    /\ \E fail \in {"none", "ctor_yolo", "infer", "decode", "utf8"}, qr \in QrResults :
          /\ fail = "ctor_yolo" => yolo_model = None
          /\ fail = "utf8" => qr # <<>>
          /\ LET r == ocr_back_qr(yolo_model, fail, qr)
             IN  /\ yolo_model' = r.yolo
                 /\ calls' = [calls EXCEPT !.det_back = @ + r.det_back,
                                           !.barcode = @ + r.barcode]
                 /\ Note(r.event)
                 /\ IF r.raised
                    THEN Finish(InternalError) /\ cnic_back' = cnic_back
                    ELSE /\ pc' = "validate" /\ response' = response
                         /\ cnic_back' = r.cnic
    /\ UNCHANGED <<faces, upper_data, upper_raw, cnic_front, lower_data, lower_raw,
                   validated, merged, sink, sink_at_start,
                   write_failed, ocr_reader, otherVars>>

\* if not validate_cnic(cnic_front, cnic_back): the 406 response
CallValidateCnic ==
    /\ pc = "validate"
    /\ calls' = [calls EXCEPT !.validate = @ + 1]
    /\ IF validate_cnic(cnic_front, cnic_back)
       THEN validated' = "true" /\ pc' = "merge" /\ response' = response
       ELSE /\ validated' = "false"
            /\ Finish(Response(envelope(FALSE, "Front and back CNIC numbers do not match",
                        [front_cnic |-> cnic_front, back_cnic |-> cnic_back],
                        <<"cnic_mismatch">>), 406))
    /\ UNCHANGED <<faces, upper_data, upper_raw, cnic_front, lower_data, lower_raw,
                   cnic_back, merged, sink, sink_at_start, events,
                   write_failed, yolo_model, ocr_reader, otherVars>>

\* merged = merge_card_data(...) and the 200 response
MergeAndRespond ==
    /\ pc = "merge"
    /\ \E wfail \in {"none", "open", "write"},
          k \in 0..(Len(DictMerge(upper_data, lower_data)) + 1) :
          /\ wfail # "write" => k = 0
          /\ wfail = "write" => k <= Len(DictMerge(upper_data, lower_data))
          /\ LET r == merge_card_data(upper_data, lower_data, sink, wfail, k)
             IN  /\ calls' = [calls EXCEPT !.merge = @ + 1]
                 /\ write_failed' = (wfail # "none")
                 /\ sink' = r.sink
                 /\ IF r.raised
                    THEN Finish(InternalError) /\ merged' = merged
                    ELSE /\ merged' = r.merged
                         /\ Finish(Response(envelope(TRUE, "ID card processed successfully",
                               [card_info |-> r.merged, front_cnic |-> cnic_front,
                                back_cnic |-> cnic_back, ocr_upper_raw |-> upper_raw,
                                ocr_lower_raw |-> lower_raw], <<>>), 200))
    /\ UNCHANGED <<faces, upper_data, upper_raw, cnic_front, lower_data, lower_raw,
                   cnic_back, validated, sink_at_start, events,
                   yolo_model, ocr_reader, otherVars>>

\* the next POST reaches id_detector
NewRequest ==
    /\ pc = "done"
    /\ pc' = "start" /\ faces' = <<>> /\ upper_data' = <<>> /\ upper_raw' = <<>>
    /\ cnic_front' = None /\ lower_data' = <<>> /\ lower_raw' = <<>> /\ cnic_back' = None
    /\ validated' = "no" /\ merged' = <<>> /\ response' = <<>>
    /\ calls' = NoCalls /\ events' = {} /\ write_failed' = FALSE
    /\ sink_at_start' = sink
    /\ UNCHANGED <<sink, yolo_model, ocr_reader, otherVars>>

NextPipe ==
    \/ Uploads \/ FaceDetection \/ CallDetectCardRegions \/ CallOcrFrontUpper
    \/ CallOcrFrontLower \/ CallOcrBackQr \/ CallValidateCnic \/ MergeAndRespond
    \/ NewRequest
SpecPipe == InitPipe /\ [][NextPipe]_vars

(***************************************************************************)
(* Claims about _convert_dates (SpecDates)                                 *)
(***************************************************************************)
HasDateShape(t) ==
    /\ Len(t) = 10
    /\ t[3] = "." /\ t[6] = "."
    /\ \A i \in {1, 2, 4, 5, 7, 8, 9, 10} : t[i] \in {"0","1","2","3","4","5","6","7","8","9"}

Compact(t) == <<t[1], t[2], t[4], t[5], t[9], t[10]>>

Pad2(n) == <<Digits[(n \div 10) + 1], Digits[(n % 10) + 1]>>
DayForms(d) == {Pad2(d)} \cup (IF d < 10 THEN { <<Digits[d + 1]>>, <<" ", Digits[d + 1]>> } ELSE {})
MonthForms(m) == {Pad2(m)} \cup (IF m < 10 THEN { <<Digits[m + 1]>> } ELSE {})
Last4(t) == SubSeq(t, Len(t) - 3, Len(t))
YearOf(t) == 1000 * DigitVal(t[Len(t) - 3]) + 100 * DigitVal(t[Len(t) - 2])
             + 10 * DigitVal(t[Len(t) - 1]) + DigitVal(t[Len(t)])
GregorianDays(y, m) ==
    CASE m \in {1, 3, 5, 7, 8, 10, 12} -> 31
      [] m \in {4, 6, 9, 11} -> 30
      [] OTHER -> IF y % 400 = 0 \/ (y % 4 = 0 /\ y % 100 # 0) THEN 29 ELSE 28

\* the (day, month) pairs a token writes as day.month.year, the day and the month
\* with one or two digits (the day also space-padded), the year with four digits,
\* for a date of the calendar
WrittenDates ==
    [t \in DateTokens |->
        { dm \in (1..31) \X (1..12) :
            /\ Len(t) >= 8
            /\ \A i \in 0..3 : IsDigit(t[Len(t) - i])
            /\ YearOf(t) >= 1
            /\ dm[1] <= GregorianDays(YearOf(t), dm[2])
            /\ \E df \in DayForms(dm[1]), mf \in MonthForms(dm[2]) :
                  t = df \o <<".">> \o mf \o <<".">> \o Last4(t) }]

C9_AsClaimed ==
    rpc = "ret" =>
        /\ lower_win.top >= upper_win.bottom
        /\ lower_win.left = upper_win.left /\ lower_win.right = upper_win.right

\* C9 amended: the windows of one anchor box are disjoint (lower top y+110 >= upper
\* bottom y+h+40) exactly when h <= 70; for h > 70 they share the rows from y+110
\* to y+h+40. Both windows have the horizontal extent [max(0,x-410), max(0,x-15))
C9_Windows ==
    rpc = "ret" =>
        /\ (lower_win.top >= upper_win.bottom) <=> (anchor[4] <= 70)
        /\ anchor[4] > 70 =>
              /\ lower_win.top = anchor[2] + 110
              /\ upper_win.bottom = anchor[2] + anchor[4] + 40
              /\ upper_win.top < lower_win.top
              /\ upper_win.bottom < lower_win.bottom
        /\ lower_win.left = upper_win.left /\ lower_win.right = upper_win.right
        /\ upper_win.left = (IF anchor[1] > 410 THEN anchor[1] - 410 ELSE 0)
        /\ upper_win.right = (IF anchor[1] > 15 THEN anchor[1] - 15 ELSE 0)

C9_Witness ==
    /\ rpc = "ret"
    /\ anchor[4] = 70
    /\ anchor[1] = 500
    /\ lower_win.top = upper_win.bottom

(***************************************************************************)
(* Claims about ocr_front_lower (SpecLower)                                *)
(***************************************************************************)
Surviving == { i \in 1..Len(result) : result[i] \notin COMMON_LOWER }
KthSurviving(k) == CHOOSE i \in Surviving : Cardinality({ j \in Surviving : j < i }) = k - 1
S_(k) == ConvertDate(StripHyphens(result[KthSurviving(k)]))

\* C6: with S the tokens not in the lower denylist, in recognizer order, hyphens
\* stripped and dates normalized: fewer than four give the empty field set; four or
\* more give exactly Id Card Number, Date Of Birth, Date Of Issue, Date Of Expiry, in
\* that order, bound to the first four of S; found identifier or not
C6_LowerFields ==
    lpc = "ret" =>
        IF Cardinality(Surviving) < 4 THEN lower_ret.data = <<>>
        ELSE /\ Len(lower_ret.data) = 4
             /\ lower_ret.data[1] = <<"Id Card Number", S_(1)>>
             /\ lower_ret.data[2] = <<"Date Of Birth", S_(2)>>
             /\ lower_ret.data[3] = <<"Date Of Issue", S_(3)>>
             /\ lower_ret.data[4] = <<"Date Of Expiry", S_(4)>>

C6_Witness ==
    /\ lpc = "ret"
    /\ Len(result) = 5
    /\ result[1] = T_Date_of_Birth
    /\ result[3] = TokDate
    /\ Len(lower_ret.data) = 4
    /\ lower_ret.data[2] = <<"Date Of Birth", <<"0","1","0","2","3","0">> >>
    /\ lower_ret.cnic = None

Is571(t) ==
    /\ Len(t) = 15
    /\ t[6] = "-" /\ t[14] = "-"
    /\ \A i \in (1..15) \ {6, 14} : IsDigit(t[i])

CnicHits == { i \in 1..Len(result) : Contains(result[i], "-") /\ Len(result[i]) = 15 }

\* C8: the identifier is the text, hyphens removed, of the first token of the
\* recognizer's result with a hyphen and 15 characters, None when there is none; and
\* every identifier returned comes from a token of the 5-7-1 digit shape
C8_AsClaimed ==
    lpc = "ret" =>
        /\ CnicHits = {} => lower_ret.cnic = None
        /\ \A i \in CnicHits :
              (\A j \in CnicHits : i <= j) =>
                  /\ lower_ret.cnic = Some(StripHyphens(result[i]))
                  /\ Is571(result[i])

(***************************************************************************)
(* Claims about the singletons (SpecLoader)                                *)
(***************************************************************************)
\* C2: however many threads call a getter, several racing on the first access
\* included, its constructor runs at most once in the life of the process and every
\* caller is returned the same instance
C2_AsClaimed ==
    /\ \A fn \in Getters : ctor_calls[fn] <= 1
    /\ \A t, u \in Threads :
          (tgot[t].fn = tgot[u].fn /\ tgot[t].ret # None /\ tgot[u].ret # None)
              => tgot[t].ret = tgot[u].ret

(***************************************************************************)
(* Claims about the pipeline (SpecPipe)                                    *)
(***************************************************************************)
Reconciled == cnic_front # None /\ cnic_back # None /\ cnic_front = cnic_back

\* C1: merge_card_data and its write to the file happen only when both identifiers
\* are present and equal; a run whose identifiers are absent or differ ends with
\* cnic_mismatch (406), carrying front_cnic and back_cnic, with the file unchanged,
\* and not with the internal-error response
C1_Gate ==
    /\ (pc = "merge" \/ calls.merge > 0) => Reconciled
    /\ sink # sink_at_start => Reconciled
    /\ (pc = "done" /\ calls.validate = 1 /\ ~Reconciled) =>
          /\ response.status = 406
          /\ response.status # InternalError.status
          /\ ~response.body.success
          /\ response.body.errors = <<"cnic_mismatch">>
          /\ response.body.data = [front_cnic |-> cnic_front, back_cnic |-> cnic_back]
          /\ sink = sink_at_start
          /\ calls.merge = 0

C1_Witness ==
    /\ pc = "done"
    /\ response.status = 406
    /\ cnic_front # None /\ cnic_back # None /\ cnic_front # cnic_back
    /\ sink_at_start # <<>>
    /\ sink = sink_at_start

CapabilityRaised ==
    events \cap { "detect:ctor_raised", "detect:capability_raised", "upper:ctor_raised",
                  "upper:infer_raised", "upper:readtext_raised", "lower:ctor_raised",
                  "lower:readtext_raised", "back:ctor_raised", "back:infer_raised",
                  "back:decode_raised" } # {}

\* C3: a capability (or its lazy construction) that raises in detect_card_regions,
\* ocr_front_upper, ocr_front_lower or ocr_back_qr is caught in that stage; the run
\* goes on to the reconciliation and does not end with the internal-error response
C3_AsClaimed ==
    (pc = "done" /\ CapabilityRaised) =>
        /\ calls.validate = 1
        /\ response.status # InternalError.status

\* C4: a failure of the write to the file changes nothing for the caller:
\* merge_card_data raises nothing and returns the merged, sanitised record, and the
\* run ends with the success response
C4_WriteFailure ==
    (pc = "done" /\ write_failed) =>
        /\ response.status = 200
        /\ response.body.success
        /\ LET ci == response.body.data.card_info
           IN  /\ merged = ci
               /\ Keys(ci) = Keys(upper_data) \cup Keys(lower_data)
               /\ Len(ci) = Cardinality(Keys(ci))
               /\ \A i \in 1..Len(ci) :
                     ci[i][2] = Remove(IF ci[i][1] \in Keys(lower_data)
                                       THEN Lookup(lower_data, ci[i][1])
                                       ELSE Lookup(upper_data, ci[i][1]), ".")

C4_Witness ==
    /\ pc = "done"
    /\ write_failed
    /\ response.status = 200
    /\ Len(response.body.data.card_info) = 6
    /\ Len(sink) = 3

\* C5 as stated: in a run that reaches the reconciliation every capability has been
\* invoked exactly once per region: detection once on the front and once on the
\* back, recognition once on the upper and once on the lower region, decoding once
C5_AsClaimed ==
    (pc = "done" /\ calls.validate = 1) =>
        /\ calls.det_front = 1 /\ calls.det_back = 1
        /\ calls.ocr_upper = 1 /\ calls.ocr_lower = 1
        /\ calls.barcode = 1

\* C5 amended: no capability call is repeated after it failed, and in a run that
\* reaches the reconciliation object detection has run exactly twice on the front
\* image (detect_card_regions, ocr_front_upper) and exactly twice on the back image
\* (detect_card_regions, ocr_back_qr); recognition has run at most once per front
\* region: once on the upper region unless detection raised, found no box or the
\* region is empty, once on the lower region unless it is empty; decoding has run at
\* most once: once unless the detection of ocr_back_qr raised
C5_Calls ==
    /\ calls.det_front <= 2 /\ calls.det_back <= 2
    /\ calls.ocr_upper <= 1 /\ calls.ocr_lower <= 1 /\ calls.barcode <= 1
    /\ calls.validate = 1 =>
          /\ calls.det_front = 2 /\ calls.det_back = 2
          /\ calls.ocr_upper =
                (IF events \cap {"upper:infer_raised", "upper:no_boxes", "upper:empty_roi"} = {}
                 THEN 1 ELSE 0)
          /\ calls.ocr_lower = (IF "lower:empty_roi" \in events THEN 0 ELSE 1)
          /\ calls.barcode = (IF "back:infer_raised" \in events THEN 0 ELSE 1)

C5_Witness ==
    /\ pc = "done"
    /\ response.status = 200
    /\ events = {}
    /\ calls.det_front = 2 /\ calls.det_back = 2
    /\ calls.ocr_upper = 1 /\ calls.ocr_lower = 1 /\ calls.barcode = 1

\* C10 as stated: in every run that ends with success, card_info has the key
\* Id Card Number and its value is front_cnic (= back_cnic)
C10_AsClaimed ==
    (pc = "done" /\ response.status = 200) =>
        LET ci == response.body.data.card_info
        IN  /\ "Id Card Number" \in Keys(ci)
            /\ Some(Lookup(ci, "Id Card Number")) = cnic_front
            /\ cnic_front = cnic_back

\* C10 amended: in every run that ends with success front_cnic and back_cnic are
\* present and equal, and card_info has the key Id Card Number exactly when at least
\* four lower-region texts survived; its value is then the first surviving text with
\* its dots removed, which is front_cnic when that text is the identifier and has no
\* dot
C10_Accepted ==
    (pc = "done" /\ response.status = 200) =>
        LET ci == response.body.data.card_info
        IN  /\ Reconciled
            /\ response.body.data.front_cnic = cnic_front
            /\ response.body.data.back_cnic = cnic_back
            /\ response.body.data.ocr_lower_raw = lower_raw
            /\ ("Id Card Number" \in Keys(ci)) <=> (Len(lower_raw) >= 4)
            /\ Len(lower_raw) >= 4 =>
                  /\ Lookup(ci, "Id Card Number") = Remove(lower_raw[1], ".")
                  /\ (Some(lower_raw[1]) = cnic_front /\ ~Contains(lower_raw[1], "."))
                        => Some(Lookup(ci, "Id Card Number")) = cnic_front

C10_Witness ==
    /\ pc = "done"
    /\ response.status = 200
    /\ "Id Card Number" \in Keys(response.body.data.card_info)
    /\ Lookup(response.body.data.card_info, "Id Card Number") = TokPlain
    /\ cnic_front = Some(TokPlain)

====
